---- MODULE Spec2Model ----
(***************************************************************************)
(* The SimpleContract chaincode (simple-contract.go): patients, proposals  *)
(* and results kept as JSON documents in the ledger's key-value state.     *)
(*                                                                         *)
(* A Go string is modelled as a sequence of units.  A unit is one          *)
(* character, written as a one-character TLA+ string, or one of the named  *)
(* units below.  A ledger value ([]byte holding a JSON object) is a        *)
(* function from member names to JSON string literals, each literal being  *)
(* the sequence of units json.Marshal writes for the string.               *)
(***************************************************************************)
EXTENDS Integers, Sequences, FiniteSets, TLC

VARIABLES ledger, last, wrote, calls, running

vars == <<ledger, last, wrote, calls, running>>

-----------------------------------------------------------------------------
(* Units of a Go string *)

\* a byte that is not part of any valid UTF-8 sequence (0xff)
BadByte == "<ff>"
\* the Unicode replacement character U+FFFD (utf8.RuneError), itself valid text
RuneError == "<U+FFFD>"
Quote == "\""
Backslash == "\\"

Digits == {"0", "1", "2", "3", "4", "5", "6", "7", "8", "9"}

\* byte value of the first byte of a unit, for the ledger's key order
ByteOf(c) ==
  CASE c = "1" -> 49 [] c = "2" -> 50 [] c = "3" -> 51
    [] c = "E" -> 69 [] c = "L" -> 76 [] c = "P" -> 80 [] c = "Q" -> 81
    [] c = "R" -> 82 [] c = "S" -> 83 [] c = "T" -> 84 [] c = "U" -> 85
    [] c = "X" -> 88 [] c = "a" -> 97 [] c = "b" -> 98 [] c = "y" -> 121
    [] c = RuneError -> 239
    [] c = BadByte -> 255
    [] OTHER -> 63

-----------------------------------------------------------------------------
(* encoding/json on string fields *)

\* json.Marshal of one unit of a string (HTML escaping is on by default)
EncodeUnit(c) ==
  CASE c = Quote -> <<Backslash, Quote>>
    [] c = Backslash -> <<Backslash, Backslash>>
    [] c = "<" -> <<Backslash, "u", "0", "0", "3", "c">>
    [] c = BadByte -> <<Backslash, "u", "f", "f", "f", "d">>
    [] OTHER -> <<c>>

RECURSIVE EncodeFrom(_, _)
EncodeFrom(s, i) ==
  IF i > Len(s) THEN <<>> ELSE EncodeUnit(s[i]) \o EncodeFrom(s, i + 1)

\* json.Marshal of a Go string: the quoted literal
EncodeString(s) == <<Quote>> \o EncodeFrom(s, 1) \o <<Quote>>

\* the rune a \uXXXX escape stands for
RuneOfHex(h) ==
  CASE h = <<"0", "0", "3", "c">> -> "<"
    [] h = <<"f", "f", "f", "d">> -> RuneError
    [] OTHER -> RuneError

RECURSIVE DecodeFrom(_, _)
DecodeFrom(b, i) ==
  IF i > Len(b) THEN <<>>
  ELSE IF b[i] = Backslash
       THEN IF b[i + 1] = "u"
            THEN <<RuneOfHex(SubSeq(b, i + 2, i + 5))>> \o DecodeFrom(b, i + 6)
            ELSE <<b[i + 1]>> \o DecodeFrom(b, i + 2)
       ELSE IF b[i] = BadByte
            THEN <<RuneError>> \o DecodeFrom(b, i + 1)
            ELSE <<b[i]>> \o DecodeFrom(b, i + 1)

\* json.Unmarshal of a quoted literal into a Go string
DecodeString(lit) == DecodeFrom(SubSeq(lit, 2, Len(lit) - 1), 1)

\* the value json.Unmarshal leaves in the field tagged `tag`: the member's
\* string when the object has such a member, the zero value "" otherwise
Member(bytes, tag) ==
  IF tag \in DOMAIN bytes THEN DecodeString(bytes[tag]) ELSE <<>>

-----------------------------------------------------------------------------
(* The three documents and their JSON forms *)

\* json.Marshal(patient): the member names are the struct tags
MarshalPatient(p) ==
  [name |-> EncodeString(p.Name),
   preExistingConditions |-> EncodeString(p.PreExistingConditions),
   diagnosisID |-> EncodeString(p.DiagnosisID),
   statusID |-> EncodeString(p.StatusID),
   keyID |-> EncodeString(p.KeyID)]

\* patient := new(Patient); json.Unmarshal(bytes, patient), its error dropped
UnmarshalPatient(bytes) ==
  [Name |-> Member(bytes, "name"),
   PreExistingConditions |-> Member(bytes, "preExistingConditions"),
   DiagnosisID |-> Member(bytes, "diagnosisID"),
   StatusID |-> Member(bytes, "statusID"),
   KeyID |-> Member(bytes, "keyID")]

MarshalProposal(p) ==
  [requesterID |-> EncodeString(p.RequesterID),
   requestedID |-> EncodeString(p.RequestedID),
   patientsIDs |-> EncodeString(p.PatientsIDs),
   keyID |-> EncodeString(p.KeyID),
   value |-> EncodeString(p.Value)]

UnmarshalProposal(bytes) ==
  [RequesterID |-> Member(bytes, "requesterID"),
   RequestedID |-> Member(bytes, "requestedID"),
   PatientsIDs |-> Member(bytes, "patientsIDs"),
   KeyID |-> Member(bytes, "keyID"),
   Value |-> Member(bytes, "value")]

MarshalResult(r) ==
  [proposalID |-> EncodeString(r.ProposalID),
   keyID |-> EncodeString(r.KeyID),
   value |-> EncodeString(r.Value)]

UnmarshalResult(bytes) ==
  [ProposalID |-> Member(bytes, "proposalID"),
   KeyID |-> Member(bytes, "keyID"),
   Value |-> Member(bytes, "value")]

-----------------------------------------------------------------------------
(* The ledger stub: the world state is a function from the keys present to *)
(* their values.  Reads and writes of the stub do not fail in this model.  *)

\* ctx.GetStub().PutState(key, value)
PutState(l, key, value) ==
  [k \in DOMAIN l \cup {key} |-> IF k = key THEN value ELSE l[k]]

\* bytes == nil after ctx.GetStub().GetState(key)
IsNil(l, key) == key \notin DOMAIN l

RECURSIVE LexLess(_, _)
\* a < b in the byte order of the keys
LexLess(a, b) ==
  IF b = <<>> THEN FALSE
  ELSE IF a = <<>> THEN TRUE
  ELSE IF a[1] # b[1] THEN ByteOf(a[1]) < ByteOf(b[1])
  ELSE LexLess(Tail(a), Tail(b))

\* RangeKeys with endKey inclusive
RangeKeys_Closed(l, startKey, endKey) ==
  {k \in DOMAIN l :
     /\ startKey = <<>> \/ ~LexLess(k, startKey)
     /\ endKey = <<>> \/ ~LexLess(endKey, k)}

\* the keys GetStateByRange(startKey, endKey) iterates over: startKey
\* inclusive, endKey exclusive, an empty bound meaning no bound on that side
RangeKeys(l, startKey, endKey) ==
  {k \in DOMAIN l :
     /\ startKey = <<>> \/ ~LexLess(k, startKey)
     /\ endKey = <<>> \/ LexLess(k, endKey)}

\* the key the iterator returns first: the least one
NextKey(ks) == CHOOSE k \in ks : \A j \in ks \ {k} : LexLess(k, j)

-----------------------------------------------------------------------------
(* Library functions *)

RECURSIVE IndexOfComma(_, _)
IndexOfComma(s, i) ==
  IF i > Len(s) THEN 0 ELSE IF s[i] = "," THEN i ELSE IndexOfComma(s, i + 1)

RECURSIVE Split(_)
\* strings.Split(s, ",")
Split(s) ==
  LET i == IndexOfComma(s, 1)
  IN  IF i = 0 THEN <<s>>
      ELSE <<SubSeq(s, 1, i - 1)>> \o Split(SubSeq(s, i + 1, Len(s)))

RECURSIVE FirstDigit(_, _)
\* the first position at or after i that holds a decimal digit, 0 when none
FirstDigit(s, i) ==
  IF i > Len(s) THEN 0 ELSE IF s[i] \in Digits THEN i ELSE FirstDigit(s, i + 1)

RECURSIVE RunEnd(_, _)
\* the last position of the run of digits that starts at i
RunEnd(s, i) ==
  IF i < Len(s) /\ s[i + 1] \in Digits THEN RunEnd(s, i + 1) ELSE i

\* ReFind for the expression `[0-9]`: the first digit alone
ReFind_OneDigit(s) ==
  LET i == FirstDigit(s, 1)
  IN  IF i = 0 THEN <<>> ELSE SubSeq(s, i, i)

\* string(regexp.MustCompile(`[0-9]+`).Find([]byte(s))): the leftmost match,
\* taken greedily; no match gives nil, hence ""
ReFind(s) ==
  LET i == FirstDigit(s, 1)
  IN  IF i = 0 THEN <<>> ELSE SubSeq(s, i, RunEnd(s, i))

RECURSIVE Show(_)
\* a string written out as one TLA+ string
Show(s) == IF s = <<>> THEN "" ELSE s[1] \o Show(Tail(s))

RECURSIVE ShowList(_)
ShowList(ss) ==
  IF ss = <<>> THEN "" ELSE "[" \o Show(ss[1]) \o "]" \o ShowList(Tail(ss))

\* phe.MeanFromString(modulo, ms): a function of the modulus and of the list
\* of ciphertexts, in their order; its result is a numeral, one opaque unit
MeanFromString(modulo, ms) ==
  <<"mean(" \o Show(modulo) \o ";" \o ShowList(ms) \o ")">>

\* phe.KeyUpdateFromString(modulo, firstToken, secondToken, value)
KeyUpdateFromString(modulo, firstToken, secondToken, value) ==
  <<"rekey(" \o Show(modulo) \o ";" \o Show(firstToken) \o ";"
      \o Show(secondToken) \o ";" \o Show(value) \o ")">>

-----------------------------------------------------------------------------
(* The transactions of SimpleContract, as functions of the world state.    *)
(* Each gives the error returned ("OK" for nil) and, for a query, the      *)
(* value returned; a transaction that may write also gives the world state *)
(* after the call and what the call did on the way: the keys it read with  *)
(* GetState, the calls it made to the phe library and the keys it wrote    *)
(* with PutState, each in order.                                           *)

OK == "OK"
\* fmt.Errorf("%s does not exist", id)
NotFound == "does not exist"

\* CreatePatient with the diagnosis and the status stored in each other's field
CreatePatient_Swapped(l, id, name, preExistingConditions, diagnosisID, statusID, keyID) ==
  LET patient == [Name |-> name,
                  PreExistingConditions |-> preExistingConditions,
                  DiagnosisID |-> statusID,
                  StatusID |-> diagnosisID,
                  KeyID |-> keyID]
  IN  [err |-> OK, ledger |-> PutState(l, id, MarshalPatient(patient)),
       reads |-> <<>>, oracle |-> <<>>, puts |-> <<id>>]

CreatePatient(l, id, name, preExistingConditions, diagnosisID, statusID, keyID) ==
  LET patient == [Name |-> name,
                  PreExistingConditions |-> preExistingConditions,
                  DiagnosisID |-> diagnosisID,
                  StatusID |-> statusID,
                  KeyID |-> keyID]
  IN  [err |-> OK, ledger |-> PutState(l, id, MarshalPatient(patient)),
       reads |-> <<>>, oracle |-> <<>>, puts |-> <<id>>]

FindPatient(l, id) ==
  IF IsNil(l, id) THEN [err |-> NotFound]
  ELSE [err |-> OK, ret |-> UnmarshalPatient(l[id])]

RECURSIVE Iterate(_, _)
\* the loop over resultsIterator: one QueryResult per key, in key order
Iterate(l, ks) ==
  IF ks = {} THEN <<>>
  ELSE LET k == NextKey(ks)
       IN  <<[Key |-> k, Record |-> UnmarshalPatient(l[k])]>>
             \o Iterate(l, ks \ {k})

AllPatients(l, firstID, lastID) ==
  [err |-> OK, ret |-> Iterate(l, RangeKeys(l, firstID, lastID))]

\* UpdatePatient leaving the keyID of the patient found as it is
UpdatePatient_KeepsKeyID(l, id, name, preExistingConditions, diagnosisID, statusID, keyID) ==
  LET found == FindPatient(l, id)
  IN  IF found.err # OK
      THEN [err |-> found.err, ledger |-> l,
            reads |-> <<id>>, oracle |-> <<>>, puts |-> <<>>]
      ELSE LET patient == [found.ret EXCEPT
                             !.Name = name,
                             !.PreExistingConditions = preExistingConditions,
                             !.DiagnosisID = diagnosisID,
                             !.StatusID = statusID]
           IN  [err |-> OK, ledger |-> PutState(l, id, MarshalPatient(patient)),
                reads |-> <<id>>, oracle |-> <<>>, puts |-> <<id>>]

\* UpdatePatient writing the patient also when the lookup fails
UpdatePatient_Upsert(l, id, name, preExistingConditions, diagnosisID, statusID, keyID) ==
  LET patient == [Name |-> name,
                  PreExistingConditions |-> preExistingConditions,
                  DiagnosisID |-> diagnosisID,
                  StatusID |-> statusID,
                  KeyID |-> keyID]
  IN  [err |-> OK, ledger |-> PutState(l, id, MarshalPatient(patient)),
       reads |-> <<id>>, oracle |-> <<>>, puts |-> <<id>>]

UpdatePatient(l, id, name, preExistingConditions, diagnosisID, statusID, keyID) ==
  LET found == FindPatient(l, id)
  IN  IF found.err # OK
      THEN [err |-> found.err, ledger |-> l,
            reads |-> <<id>>, oracle |-> <<>>, puts |-> <<>>]
      ELSE LET patient == [found.ret EXCEPT
                             !.Name = name,
                             !.PreExistingConditions = preExistingConditions,
                             !.DiagnosisID = diagnosisID,
                             !.StatusID = statusID,
                             !.KeyID = keyID]
           IN  [err |-> OK, ledger |-> PutState(l, id, MarshalPatient(patient)),
                reads |-> <<id>>, oracle |-> <<>>, puts |-> <<id>>]

RECURSIVE Collect_Reversed(_, _, _, _)
\* Collect with each ciphertext put in front of those found before it
Collect_Reversed(l, pids, i, ms) ==
  IF i > Len(pids) THEN [err |-> OK, ms |-> ms, reads |-> pids]
  ELSE LET found == FindPatient(l, pids[i])
       IN  IF found.err # OK
           THEN [err |-> found.err, reads |-> SubSeq(pids, 1, i)]
           ELSE Collect_Reversed(l, pids, i + 1,
                                 <<found.ret.PreExistingConditions>> \o ms)

RECURSIVE Collect_SkipMissing(_, _, _, _)
\* Collect going on to the next subject when a lookup fails
Collect_SkipMissing(l, pids, i, ms) ==
  IF i > Len(pids) THEN [err |-> OK, ms |-> ms, reads |-> pids]
  ELSE LET found == FindPatient(l, pids[i])
       IN  IF found.err # OK
           THEN Collect_SkipMissing(l, pids, i + 1, ms)
           ELSE Collect_SkipMissing(l, pids, i + 1,
                                    Append(ms, found.ret.PreExistingConditions))

RECURSIVE Collect_ReadAll(_, _, _, _)
\* Collect looking every subject up before it returns the first error
Collect_ReadAll(l, pids, i, ms) ==
  IF i > Len(pids) THEN [err |-> OK, ms |-> ms, reads |-> pids]
  ELSE LET found == FindPatient(l, pids[i])
           rest == Collect_ReadAll(
                     l, pids, i + 1,
                     IF found.err # OK THEN ms
                     ELSE Append(ms, found.ret.PreExistingConditions))
       IN  IF found.err # OK
           THEN [err |-> found.err, reads |-> rest.reads]
           ELSE rest

RECURSIVE Collect(_, _, _, _)
\* the loop over pids: the first lookup that fails ends the call
Collect(l, pids, i, ms) ==
  IF i > Len(pids) THEN [err |-> OK, ms |-> ms, reads |-> pids]
  ELSE LET found == FindPatient(l, pids[i])
       IN  IF found.err # OK
           THEN [err |-> found.err, reads |-> SubSeq(pids, 1, i)]
           ELSE Collect(l, pids, i + 1,
                        Append(ms, found.ret.PreExistingConditions))

CreateProposal(l, id, requesterID, requestedID, patientsIDs, keyID, modulo) ==
  LET proposal == [RequesterID |-> requesterID,
                   RequestedID |-> requestedID,
                   PatientsIDs |-> patientsIDs,
                   KeyID |-> keyID,
                   Value |-> <<>>]
      pids == Split(proposal.PatientsIDs)
      got == Collect(l, pids, 1, <<>>)
  IN  IF got.err # OK
      THEN [err |-> got.err, ledger |-> l,
            reads |-> got.reads, oracle |-> <<>>, puts |-> <<>>]
      ELSE LET m == MeanFromString(modulo, got.ms)
               saved == [proposal EXCEPT !.Value = m]
           IN  [err |-> OK, ledger |-> PutState(l, id, MarshalProposal(saved)),
                reads |-> got.reads,
                oracle |-> <<[fn |-> "MeanFromString", modulo |-> modulo,
                              ms |-> got.ms]>>,
                puts |-> <<id>>]

FindProposal(l, id) ==
  IF IsNil(l, id) THEN [err |-> NotFound]
  ELSE [err |-> OK, ret |-> UnmarshalProposal(l[id])]

\* the key made of the whole proposalID
ResultKey_WholeId(proposalID) == <<"R", "E", "S", "U", "L", "T">> \o proposalID

\* id := "RESULT" + idNumber
ResultKey(proposalID) == <<"R", "E", "S", "U", "L", "T">> \o ReFind(proposalID)

\* CreateResult going on with an empty proposal when the lookup fails
CreateResult_NoCheck(l, proposalID, firstToken, secondToken, keyID, modulo) ==
  LET found == FindProposal(l, proposalID)
      value == IF found.err # OK THEN <<>> ELSE found.ret.Value
      newValue == KeyUpdateFromString(modulo, firstToken, secondToken, value)
      result == [ProposalID |-> proposalID,
                 KeyID |-> keyID,
                 Value |-> newValue]
      id == ResultKey(proposalID)
  IN  [err |-> OK, ledger |-> PutState(l, id, MarshalResult(result)),
       reads |-> <<proposalID>>,
       oracle |-> <<[fn |-> "KeyUpdateFromString", modulo |-> modulo,
                     firstToken |-> firstToken,
                     secondToken |-> secondToken,
                     value |-> value]>>,
       puts |-> <<id>>]

CreateResult(l, proposalID, firstToken, secondToken, keyID, modulo) ==
  LET found == FindProposal(l, proposalID)
  IN  IF found.err # OK
      THEN [err |-> found.err, ledger |-> l,
            reads |-> <<proposalID>>, oracle |-> <<>>, puts |-> <<>>]
      ELSE LET newValue == KeyUpdateFromString(modulo, firstToken, secondToken,
                                               found.ret.Value)
               result == [ProposalID |-> proposalID,
                          KeyID |-> keyID,
                          Value |-> newValue]
               id == ResultKey(proposalID)
           IN  [err |-> OK, ledger |-> PutState(l, id, MarshalResult(result)),
                reads |-> <<proposalID>>,
                oracle |-> <<[fn |-> "KeyUpdateFromString", modulo |-> modulo,
                              firstToken |-> firstToken,
                              secondToken |-> secondToken,
                              value |-> found.ret.Value]>>,
                puts |-> <<id>>]

FindResult(l, id) ==
  IF IsNil(l, id) THEN [err |-> NotFound]
  ELSE [err |-> OK, ret |-> UnmarshalResult(l[id])]

-----------------------------------------------------------------------------
(* Bounds and the arguments the transactions are invoked with *)

\* invocations of the transactions that may write, in one run of Spec
MaxCalls == 3
\* the same in one run of SpecFlow
MaxFlowCalls == 5

IdA == <<"a">>
IdP12 == <<"P", "1", "2">>
IdX12y3 == <<"X", "1", "2", "y", "3">>
IdRESULT == <<"R", "E", "S", "U", "L", "T">>
IdRESULT12 == <<"R", "E", "S", "U", "L", "T", "1", "2">>

\* the ids the transactions are invoked with
Ids == {IdA, IdP12, IdX12y3, IdRESULT12}
\* the keys the queries are invoked with
QueryIds == Ids \cup {IdRESULT}
\* the bounds AllPatients is invoked with
RangeBounds == {<<>>, IdRESULT12}

PatientInputs ==
  {[name |-> <<"n", "1">>, preExistingConditions |-> <<"c", "1">>,
    diagnosisID |-> <<"d", "1">>, statusID |-> <<"s", "1">>,
    keyID |-> <<"k", "1">>],
   [name |-> <<"n", BadByte>>, preExistingConditions |-> <<"c", "2">>,
    diagnosisID |-> <<"d", Backslash>>, statusID |-> <<"s", "<">>,
    keyID |-> <<"k", Quote>>]}

RECURSIVE Join(_)
\* the ids of a list written as the caller passes them: separated by commas
Join(ss) ==
  IF Len(ss) = 1 THEN ss[1] ELSE ss[1] \o <<",">> \o Join(Tail(ss))

\* the lists of subjects a proposal is asked for
SubjectLists == {<<IdA>>, <<IdA, IdP12>>, <<IdP12, IdA>>, <<IdA, IdA>>}

\* the patientsIDs arguments: the lists, and the empty string
PatientsIDsInputs == {Join(ss) : ss \in SubjectLists} \cup {<<>>}

ProposalInput(pids) ==
  [requesterID |-> <<"r", BadByte>>, requestedID |-> <<"q", Quote>>,
   patientsIDs |-> pids, keyID |-> <<"K", "1">>, modulo |-> <<"m", "1">>]

\* the arguments of CreateProposal: every patientsIDs with the modulus "m1",
\* and one subject with the empty modulus, which is not a number
ProposalInputs ==
  {ProposalInput(pids) : pids \in PatientsIDsInputs}
    \cup {[ProposalInput(IdA) EXCEPT !.modulo = <<>>]}

ResultInputs ==
  {[firstToken |-> <<"f", "1">>, secondToken |-> <<"g", "1">>,
    keyID |-> <<"h", "1">>, modulo |-> <<"M", "1">>],
   [firstToken |-> <<"f", "2">>, secondToken |-> <<"g", "2">>,
    keyID |-> <<"h", BadByte>>, modulo |-> <<"M", "2">>],
   [firstToken |-> <<"f", "1">>, secondToken |-> <<"g", "1">>,
    keyID |-> <<"h", "1">>, modulo |-> <<>>]}

\* the ids of the flow from one patient over two proposals to their results
FlowProposalIds == {IdP12, IdX12y3}

-----------------------------------------------------------------------------
(* The state machine: one transaction per step.                            *)
(*   ledger  the world state                                               *)
(*   last    the last invocation: its name, arguments, error and either    *)
(*           its result or what it did on the way                          *)
(*   wrote   the transactions that have called PutState so far, each as    *)
(*           its name, the id it was invoked with and the key it wrote     *)
(*   calls   the number of invocations so far of the transactions that may *)
(*           write                                                         *)
(*   running the invocation each client has in progress, when invocations  *)
(*           are followed one ledger access at a time: its name and        *)
(*           arguments, the access it makes next and its local variables   *)

\* the clients whose invocations are followed one ledger access at a time
Procs == {1, 2}

\* no invocation in progress
Idle == [op |-> "none", pc |-> "done"]

Init ==
  /\ ledger = <<>>
  /\ last = [op |-> "none"]
  /\ wrote = {}
  /\ calls = 0
  /\ running = [p \in Procs |-> Idle]

\* the step of a transaction that may write
Commit(op, id, args, r) ==
  /\ ledger' = r.ledger
  /\ last' = [op |-> op, id |-> id, args |-> args, err |-> r.err,
              reads |-> r.reads, oracle |-> r.oracle, puts |-> r.puts]
  /\ wrote' = IF r.puts = <<>> THEN wrote ELSE wrote \cup {<<op, id, r.puts[1]>>}
  /\ calls' = calls + 1
  /\ UNCHANGED running

\* the step of a query
Answer(op, id, args, r) ==
  /\ last' = [op |-> op, id |-> id, args |-> args, err |-> r.err,
              ret |-> IF r.err = OK THEN r.ret ELSE <<>>]
  /\ UNCHANGED <<ledger, wrote, calls, running>>

CreatePatientTx(id, a) ==
  Commit("CreatePatient", id, a,
         CreatePatient(ledger, id, a.name, a.preExistingConditions,
                       a.diagnosisID, a.statusID, a.keyID))

\* FindPatient writing the patient it decoded back at the id
FindPatientTx_WriteBack(id) ==
  LET r == FindPatient(ledger, id)
  IN  /\ last' = [op |-> "FindPatient", id |-> id, args |-> <<>>, err |-> r.err,
                  ret |-> IF r.err = OK THEN r.ret ELSE <<>>]
      /\ ledger' = IF r.err = OK
                   THEN PutState(ledger, id, MarshalPatient(r.ret))
                   ELSE ledger
      /\ UNCHANGED <<wrote, calls, running>>

FindPatientTx(id) == Answer("FindPatient", id, <<>>, FindPatient(ledger, id))

AllPatientsTx(firstID, lastID) ==
  Answer("AllPatients", firstID, lastID, AllPatients(ledger, firstID, lastID))

UpdatePatientTx(id, a) ==
  Commit("UpdatePatient", id, a,
         UpdatePatient(ledger, id, a.name, a.preExistingConditions,
                       a.diagnosisID, a.statusID, a.keyID))

CreateProposalTx(id, a) ==
  Commit("CreateProposal", id, a,
         CreateProposal(ledger, id, a.requesterID, a.requestedID,
                        a.patientsIDs, a.keyID, a.modulo))

FindProposalTx(id) == Answer("FindProposal", id, <<>>, FindProposal(ledger, id))

CreateResultTx(proposalID, a) ==
  Commit("CreateResult", proposalID, a,
         CreateResult(ledger, proposalID, a.firstToken, a.secondToken,
                      a.keyID, a.modulo))

FindResultTx(id) == Answer("FindResult", id, <<>>, FindResult(ledger, id))

\* any transaction on any id
Next ==
  \/ \E id \in Ids, a \in PatientInputs :
       calls < MaxCalls /\ CreatePatientTx(id, a)
  \/ \E id \in QueryIds : FindPatientTx(id)
  \/ \E firstID \in RangeBounds, lastID \in RangeBounds :
       AllPatientsTx(firstID, lastID)
  \/ \E id \in Ids, a \in PatientInputs :
       calls < MaxCalls /\ UpdatePatientTx(id, a)
  \/ \E id \in Ids, a \in ProposalInputs :
       calls < MaxCalls /\ CreateProposalTx(id, a)
  \/ \E id \in QueryIds : FindProposalTx(id)
  \/ \E id \in Ids, a \in ResultInputs :
       calls < MaxCalls /\ CreateResultTx(id, a)
  \/ \E id \in QueryIds : FindResultTx(id)

Spec == Init /\ [][Next]_vars

\* the flow the contract is written for: one patient, proposals about that
\* patient under two ids, and the results of those proposals
NextFlow ==
  \/ \E a \in PatientInputs :
       calls < MaxFlowCalls /\ CreatePatientTx(IdA, a)
  \/ FindPatientTx(IdA)
  \/ AllPatientsTx(<<>>, <<>>)
  \/ \E a \in PatientInputs :
       calls < MaxFlowCalls /\ UpdatePatientTx(IdA, a)
  \/ \E id \in FlowProposalIds :
       calls < MaxFlowCalls /\ CreateProposalTx(id, ProposalInput(IdA))
  \/ \E id \in FlowProposalIds : FindProposalTx(id)
  \/ \E id \in FlowProposalIds, a \in ResultInputs :
       calls < MaxFlowCalls /\ CreateResultTx(id, a)
  \/ FindResultTx(IdRESULT12)

SpecFlow == Init /\ [][NextFlow]_vars

-----------------------------------------------------------------------------
(* UpdatePatient and CreateProposal, one ledger access at a time.  A client *)
(* has one invocation in progress; its frame in running holds pc, the      *)
(* access it makes next, and the local variables of the handler.  The      *)
(* frame also keeps whether the id had an entry when the call began and    *)
(* what the entry was.                                                     *)

\* the entry of l at key k, as a set: empty when the key has none
Entry(l, k) == IF k \in DOMAIN l THEN {l[k]} ELSE {}

\* the invocation of client p returns: its frame is kept, with the error
Return(p, err, reads, oracle, puts) ==
  LET f == running[p]
  IN  /\ running' = [running EXCEPT ![p] = [f EXCEPT !.pc = "done", !.err = err]]
      /\ last' = [op |-> f.op, id |-> f.id, args |-> f.args, err |-> err,
                  reads |-> reads, oracle |-> oracle, puts |-> puts]
      /\ wrote' = IF puts = <<>> THEN wrote ELSE wrote \cup {<<f.op, f.id, puts[1]>>}

\* client p invokes UpdatePatient(id, a...)
UpdatePatientCall(p, id, a) ==
  /\ running[p].pc = "done"
  /\ running' = [running EXCEPT ![p] =
                   [op |-> "UpdatePatient", id |-> id, args |-> a,
                    pc |-> "FindPatient", err |-> OK,
                    existed |-> id \in DOMAIN ledger,
                    before |-> Entry(ledger, id)]]
  /\ calls' = calls + 1
  /\ UNCHANGED <<ledger, last, wrote>>

\* patient, err := s.FindPatient(ctx, id), and the return when it fails
UpdatePatientFind(p) ==
  LET f == running[p]
      found == FindPatient(ledger, f.id)
  IN  /\ f.op = "UpdatePatient"
      /\ f.pc = "FindPatient"
      /\ IF found.err # OK
         THEN Return(p, found.err, <<f.id>>, <<>>, <<>>)
         ELSE /\ running' = [running EXCEPT ![p] =
                               [op |-> f.op, id |-> f.id, args |-> f.args,
                                pc |-> "PutState", err |-> OK,
                                existed |-> f.existed, before |-> f.before,
                                patient |-> found.ret]]
              /\ UNCHANGED <<last, wrote>>
      /\ UNCHANGED <<ledger, calls>>

\* UpdatePatientPut leaving the keyID of the patient it read as it is
UpdatePatientPut_KeepsKeyID(p) ==
  LET f == running[p]
      patient == [f.patient EXCEPT
                    !.Name = f.args.name,
                    !.PreExistingConditions = f.args.preExistingConditions,
                    !.DiagnosisID = f.args.diagnosisID,
                    !.StatusID = f.args.statusID]
  IN  /\ f.op = "UpdatePatient"
      /\ f.pc = "PutState"
      /\ ledger' = PutState(ledger, f.id, MarshalPatient(patient))
      /\ Return(p, OK, <<f.id>>, <<>>, <<f.id>>)
      /\ UNCHANGED calls

\* the five assignments, json.Marshal and PutState(id, patientAsBytes)
UpdatePatientPut(p) ==
  LET f == running[p]
      patient == [f.patient EXCEPT
                    !.Name = f.args.name,
                    !.PreExistingConditions = f.args.preExistingConditions,
                    !.DiagnosisID = f.args.diagnosisID,
                    !.StatusID = f.args.statusID,
                    !.KeyID = f.args.keyID]
  IN  /\ f.op = "UpdatePatient"
      /\ f.pc = "PutState"
      /\ ledger' = PutState(ledger, f.id, MarshalPatient(patient))
      /\ Return(p, OK, <<f.id>>, <<>>, <<f.id>>)
      /\ UNCHANGED calls

\* client p invokes CreateProposal(id, a...): the proposal is built and
\* patientsIDs split
CreateProposalCall(p, id, a) ==
  /\ running[p].pc = "done"
  /\ running' = [running EXCEPT ![p] =
                   [op |-> "CreateProposal", id |-> id, args |-> a,
                    pc |-> "FindPatient", err |-> OK,
                    existed |-> id \in DOMAIN ledger,
                    before |-> Entry(ledger, id),
                    pids |-> Split(a.patientsIDs), i |-> 1, ms |-> <<>>,
                    m |-> <<>>]]
  /\ calls' = calls + 1
  /\ UNCHANGED <<ledger, last, wrote>>

\* one iteration of the loop over pids: s.FindPatient(ctx, pid), the return
\* when it fails, the append when it does not
CreateProposalFind(p) ==
  LET f == running[p]
      found == FindPatient(ledger, f.pids[f.i])
  IN  /\ f.op = "CreateProposal"
      /\ f.pc = "FindPatient"
      /\ IF found.err # OK
         THEN Return(p, found.err, SubSeq(f.pids, 1, f.i), <<>>, <<>>)
         ELSE /\ running' = [running EXCEPT ![p] =
                               [f EXCEPT
                                  !.ms = Append(f.ms, found.ret.PreExistingConditions),
                                  !.i = f.i + 1,
                                  !.pc = IF f.i = Len(f.pids)
                                         THEN "MeanFromString"
                                         ELSE "FindPatient"]]
              /\ UNCHANGED <<last, wrote>>
      /\ UNCHANGED <<ledger, calls>>

\* CreateProposalMean storing the proposal, its value still empty, before
\* the mean is there
CreateProposalMean_SavesPending(p) ==
  LET f == running[p]
      pending == [RequesterID |-> f.args.requesterID,
                  RequestedID |-> f.args.requestedID,
                  PatientsIDs |-> f.args.patientsIDs,
                  KeyID |-> f.args.keyID,
                  Value |-> <<>>]
  IN  /\ f.op = "CreateProposal"
      /\ f.pc = "MeanFromString"
      /\ ledger' = PutState(ledger, f.id, MarshalProposal(pending))
      /\ running' = [running EXCEPT ![p] =
                       [f EXCEPT !.m = MeanFromString(f.args.modulo, f.ms),
                                 !.pc = "PutState"]]
      /\ UNCHANGED <<last, wrote, calls>>

\* m := phe.MeanFromString(modulo, ms)
CreateProposalMean(p) ==
  LET f == running[p]
  IN  /\ f.op = "CreateProposal"
      /\ f.pc = "MeanFromString"
      /\ running' = [running EXCEPT ![p] =
                       [f EXCEPT !.m = MeanFromString(f.args.modulo, f.ms),
                                 !.pc = "PutState"]]
      /\ UNCHANGED <<ledger, last, wrote, calls>>

\* proposal.Value = m, json.Marshal and PutState(id, proposalAsBytes)
CreateProposalPut(p) ==
  LET f == running[p]
      proposal == [RequesterID |-> f.args.requesterID,
                   RequestedID |-> f.args.requestedID,
                   PatientsIDs |-> f.args.patientsIDs,
                   KeyID |-> f.args.keyID,
                   Value |-> f.m]
  IN  /\ f.op = "CreateProposal"
      /\ f.pc = "PutState"
      /\ ledger' = PutState(ledger, f.id, MarshalProposal(proposal))
      /\ Return(p, OK, f.pids,
                <<[fn |-> "MeanFromString", modulo |-> f.args.modulo,
                   ms |-> f.ms]>>,
                <<f.id>>)
      /\ UNCHANGED calls

\* invocations begun in one run of SpecSteps
MaxStepCalls == 3

\* the values the updates of SpecSteps supply
UpdateInputs ==
  {[name |-> <<"n", BadByte>>, preExistingConditions |-> <<"c", "2">>,
    diagnosisID |-> <<"d", Backslash>>, statusID |-> <<"s", "<">>,
    keyID |-> <<"k", Quote>>],
   [name |-> <<"n", "3">>, preExistingConditions |-> <<"c", "3">>,
    diagnosisID |-> <<"d", "3">>, statusID |-> <<"s", "3">>,
    keyID |-> <<"k", "3">>]}

\* the values the patient of SpecSteps is created with
CreateInputs ==
  {[name |-> <<"n", "1">>, preExistingConditions |-> <<"c", "1">>,
    diagnosisID |-> <<"d", "1">>, statusID |-> <<"s", "1">>,
    keyID |-> <<"k", "1">>]}

\* the patientsIDs the proposals of SpecSteps are asked for
StepPatientsIDs == {IdA, Join(<<IdA, IdA>>)}

\* patient "a" is created; the two clients update it; client 1 also asks for
\* the proposal "P12" over it; the queries on "a" and "P12" come at any time
NextSteps ==
  \/ \E a \in CreateInputs :
       calls < MaxStepCalls /\ CreatePatientTx(IdA, a)
  \/ \E p \in Procs, a \in UpdateInputs :
       calls < MaxStepCalls /\ UpdatePatientCall(p, IdA, a)
  \/ \E p \in Procs : UpdatePatientFind(p)
  \/ \E p \in Procs : UpdatePatientPut(p)
  \/ \E pids \in StepPatientsIDs :
       calls < MaxStepCalls /\ CreateProposalCall(1, IdP12, ProposalInput(pids))
  \/ \E p \in Procs : CreateProposalFind(p)
  \/ \E p \in Procs : CreateProposalMean(p)
  \/ \E p \in Procs : CreateProposalPut(p)
  \/ FindPatientTx(IdA)
  \/ FindProposalTx(IdP12)

SpecSteps == Init /\ [][NextSteps]_vars

-----------------------------------------------------------------------------
(* Vocabulary of the properties *)

\* a string as text: every byte that is not valid UTF-8 replaced by U+FFFD
Coerced(s) == [i \in 1..Len(s) |-> IF s[i] = BadByte THEN RuneError ELSE s[i]]

\* the last invocation was transaction op and returned no error
Succeeded(op) == last.op = op /\ last.err = OK

\* the last invocation was transaction op and returned the error err
Failed(op, err) == last.op = op /\ last.err = err

-----------------------------------------------------------------------------
(* C1: CreatePatient, then FindPatient *)

\* C1 as stated: after a successful CreatePatient(id, ...) FindPatient(id)
\* succeeds and returns exactly the five values supplied.
C1_RoundTripExact ==
  Succeeded("CreatePatient") =>
    FindPatient(ledger, last.id) =
      [err |-> OK,
       ret |-> [Name |-> last.args.name,
                PreExistingConditions |-> last.args.preExistingConditions,
                DiagnosisID |-> last.args.diagnosisID,
                StatusID |-> last.args.statusID,
                KeyID |-> last.args.keyID]]

\* C1, amended: after a successful CreatePatient(id, ...), whatever the key
\* held before, FindPatient(id) succeeds and returns the five values supplied,
\* each as text: equal to the value supplied when that is valid UTF-8, and
\* with U+FFFD in the place of every byte of it that is not.
C1_RoundTrip ==
  Succeeded("CreatePatient") =>
    FindPatient(ledger, last.id) =
      [err |-> OK,
       ret |-> [Name |-> Coerced(last.args.name),
                PreExistingConditions |-> Coerced(last.args.preExistingConditions),
                DiagnosisID |-> Coerced(last.args.diagnosisID),
                StatusID |-> Coerced(last.args.statusID),
                KeyID |-> Coerced(last.args.keyID)]]

\* a patient has just been created, with a name that is not valid UTF-8, at
\* an id that held a proposal
C1_Witness ==
  /\ Succeeded("CreatePatient")
  /\ <<"CreateProposal", last.id, last.id>> \in wrote
  /\ BadByte \in {last.args.name[i] : i \in 1..Len(last.args.name)}

-----------------------------------------------------------------------------
(* C2: what CreateProposal stores *)

\* the list of subjects the caller wrote as patientsIDs
SubjectsOf(patientsIDs) == CHOOSE ss \in SubjectLists : Join(ss) = patientsIDs

\* the ciphertexts FindPatient reports in world state l for the subjects ss,
\* one for each position of the list
Ciphertexts(l, ss) ==
  [i \in 1..Len(ss) |-> FindPatient(l, ss[i]).ret.PreExistingConditions]

\* C2 as stated: a successful CreateProposal(id, ...) stores at id a proposal
\* whose value is the mean, under the modulus given, of the subjects' stored
\* ciphertexts in the order of the list, and whose other fields are exactly
\* the arguments supplied.
C2_ProposalStoredExact ==
  [][(last'.op = "CreateProposal" /\ last'.err = OK) =>
       LET a == last'.args
           L == Ciphertexts(ledger, SubjectsOf(a.patientsIDs))
       IN  FindProposal(ledger', last'.id) =
             [err |-> OK,
              ret |-> [RequesterID |-> a.requesterID,
                       RequestedID |-> a.requestedID,
                       PatientsIDs |-> a.patientsIDs,
                       KeyID |-> a.keyID,
                       Value |-> MeanFromString(a.modulo, L)]]]_vars

\* C2, amended: a successful CreateProposal(id, ...) stores at id a proposal
\* whose value is the mean, under the modulus given, of the subjects' stored
\* ciphertexts in the order of the list, one for each position, and whose
\* other fields are the arguments supplied, each as text (U+FFFD in the place
\* of every byte that is not valid UTF-8).
C2_ProposalStored ==
  [][(last'.op = "CreateProposal" /\ last'.err = OK) =>
       LET a == last'.args
           L == Ciphertexts(ledger, SubjectsOf(a.patientsIDs))
       IN  FindProposal(ledger', last'.id) =
             [err |-> OK,
              ret |-> [RequesterID |-> Coerced(a.requesterID),
                       RequestedID |-> Coerced(a.requestedID),
                       PatientsIDs |-> Coerced(a.patientsIDs),
                       KeyID |-> Coerced(a.keyID),
                       Value |-> MeanFromString(a.modulo, L)]]]_vars

\* a proposal about two subjects with different ciphertexts has just been
\* stored, under an id of its own
C2_Witness ==
  /\ Succeeded("CreateProposal")
  /\ last.args.patientsIDs = Join(<<IdP12, IdA>>)
  /\ last.id \notin {IdA, IdP12}
  /\ FindPatient(ledger, IdA).ret.PreExistingConditions
       # FindPatient(ledger, IdP12).ret.PreExistingConditions
  /\ FindProposal(ledger, last.id).ret.Value # <<>>

-----------------------------------------------------------------------------
(* C3: CreateProposal with a subject that is missing *)

\* C3: when at least one entry of the list of subjects has no entry in the
\* ledger, CreateProposal fails with "does not exist" and the ledger after
\* the call is the ledger before it.
C3_MissingSubject ==
  [][(/\ last'.op = "CreateProposal"
      /\ \E ss \in SubjectLists :
           /\ Join(ss) = last'.args.patientsIDs
           /\ \E i \in 1..Len(ss) : ss[i] \notin DOMAIN ledger)
       => /\ last'.err = NotFound
          /\ last'.puts = <<>>
          /\ ledger' = ledger]_vars

\* CreateProposal has just failed on its second subject, the first one being
\* there, and nothing is stored at the id of the proposal
C3_Witness ==
  /\ Failed("CreateProposal", NotFound)
  /\ last.args.patientsIDs = Join(<<IdA, IdP12>>)
  /\ IdA \in DOMAIN ledger
  /\ IdP12 \notin DOMAIN ledger
  /\ last.id \notin DOMAIN ledger

-----------------------------------------------------------------------------
(* C4: where CreateResult writes, and what *)

\* d is the leftmost maximal run of decimal digits of p: the empty string
\* when p has no digit
IsFirstDigitRun(p, d) ==
  \/ /\ d = <<>>
     /\ \A k \in 1..Len(p) : p[k] \notin Digits
  \/ \E i \in 1..Len(p), j \in 1..Len(p) :
       /\ i <= j
       /\ d = SubSeq(p, i, j)
       /\ \A k \in 1..(i - 1) : p[k] \notin Digits
       /\ \A k \in i..j : p[k] \in Digits
       /\ j = Len(p) \/ p[j + 1] \notin Digits

\* the substrings of p
Substrings(p) ==
  {<<>>} \cup {SubSeq(p, i, j) : i \in 1..Len(p), j \in 1..Len(p)}

\* the leftmost maximal run of digits of p
FirstDigitRunOf(p) == CHOOSE d \in Substrings(p) : IsFirstDigitRun(p, d)

\* the key "RESULT" + d, d the leftmost maximal run of digits of p
DerivedId(p) == IdRESULT \o FirstDigitRunOf(p)

\* the ledgers l and m hold the same at every key but k
SameButAt(l, m, k) ==
  /\ DOMAIN l \ {k} = DOMAIN m \ {k}
  /\ \A j \in DOMAIN l \ {k} : l[j] = m[j]

\* C4 as stated: a successful CreateResult(proposalID, ...) writes at the key
\* "RESULT" + d and nowhere else, d being the leftmost maximal run of digits
\* of proposalID, and the result stored there has the proposalID and keyID
\* supplied and the value KeyUpdateFromString gives for the modulus, the tokens
\* and the value of the proposal stored at proposalID.
C4_ResultStoredExact ==
  [][(last'.op = "CreateResult" /\ last'.err = OK) =>
       LET a == last'.args
           key == DerivedId(last'.id)
       IN  /\ last'.puts = <<key>>
           /\ SameButAt(ledger, ledger', key)
           /\ FindResult(ledger', key) =
                [err |-> OK,
                 ret |-> [ProposalID |-> last'.id,
                          KeyID |-> a.keyID,
                          Value |-> KeyUpdateFromString(
                                      a.modulo, a.firstToken, a.secondToken,
                                      FindProposal(ledger, last'.id).ret.Value)]]]_vars

\* C4, amended: the same, the proposalID and keyID stored being those supplied
\* as text (U+FFFD in the place of every byte that is not valid UTF-8).
C4_ResultStored ==
  [][(last'.op = "CreateResult" /\ last'.err = OK) =>
       LET a == last'.args
           key == DerivedId(last'.id)
       IN  /\ last'.puts = <<key>>
           /\ SameButAt(ledger, ledger', key)
           /\ FindResult(ledger', key) =
                [err |-> OK,
                 ret |-> [ProposalID |-> Coerced(last'.id),
                          KeyID |-> Coerced(a.keyID),
                          Value |-> KeyUpdateFromString(
                                      a.modulo, a.firstToken, a.secondToken,
                                      FindProposal(ledger, last'.id).ret.Value)]]]_vars

\* the result of the proposal stored at "X12y3" has just been written, at
\* "RESULT12"
C4_Witness ==
  /\ Succeeded("CreateResult")
  /\ last.id = IdX12y3
  /\ <<"CreateProposal", IdX12y3, IdX12y3>> \in wrote
  /\ FindProposal(ledger, IdX12y3).ret.Value # <<>>
  /\ IdRESULT12 \in DOMAIN ledger
  /\ FindResult(ledger, IdRESULT12).ret.ProposalID = IdX12y3

-----------------------------------------------------------------------------
(* C5: CreateResult for a proposal that is missing *)

\* C5: CreateResult invoked with a proposalID that has no entry in the ledger
\* fails with "does not exist", makes no call to the phe library and writes
\* nothing: the ledger after the call is the ledger before it.
C5_MissingProposal ==
  [][(last'.op = "CreateResult" /\ last'.id \notin DOMAIN ledger)
       => /\ last'.err = NotFound
          /\ last'.oracle = <<>>
          /\ last'.puts = <<>>
          /\ ledger' = ledger]_vars

\* CreateResult has just failed for "P12", which is missing, in a ledger that
\* holds something else; nothing is stored at "RESULT12"
C5_Witness ==
  /\ Failed("CreateResult", NotFound)
  /\ last.id = IdP12
  /\ IdP12 \notin DOMAIN ledger
  /\ IdRESULT12 \notin DOMAIN ledger
  /\ DOMAIN ledger # {}

-----------------------------------------------------------------------------
(* C6: results of proposals whose ids have the same first run of digits *)

\* C6: a successful CreateResult writes at the key every earlier successful
\* CreateResult wrote at whose proposalID has the same first run of digits
\* (the same proposalID or another one), whatever the tokens, keyID and
\* modulus of the two calls, and FindResult at that key then gives the result
\* of this call alone: its proposalID, its keyID and the value re-keyed with
\* its tokens and modulus.
C6_LastWriteWins ==
  [][(last'.op = "CreateResult" /\ last'.err = OK) =>
       \A w \in wrote :
         (w[1] = "CreateResult"
            /\ FirstDigitRunOf(w[2]) = FirstDigitRunOf(last'.id)) =>
           LET a == last'.args
           IN  /\ last'.puts = <<w[3]>>
               /\ DOMAIN ledger'[w[3]] = {"proposalID", "keyID", "value"}
               /\ FindResult(ledger', w[3]) =
                    [err |-> OK,
                     ret |-> [ProposalID |-> last'.id,
                              KeyID |-> Coerced(a.keyID),
                              Value |-> KeyUpdateFromString(
                                          a.modulo, a.firstToken, a.secondToken,
                                          FindProposal(ledger, last'.id).ret.Value)]]]_vars

\* proposals were created at "P12" and at "X12y3"; the result of "P12" was
\* written at "RESULT12", and the result of "X12y3" has just been written over
\* it
C6_Witness ==
  /\ Succeeded("CreateResult")
  /\ last.id = IdX12y3
  /\ <<"CreateProposal", IdP12, IdP12>> \in wrote
  /\ <<"CreateProposal", IdX12y3, IdX12y3>> \in wrote
  /\ <<"CreateResult", IdP12, IdRESULT12>> \in wrote
  /\ last.puts = <<IdRESULT12>>
  /\ FindResult(ledger, IdRESULT12).ret.ProposalID = IdX12y3

-----------------------------------------------------------------------------
(* C7: FindPatient on an id no CreatePatient was given *)

\* C7 as stated: FindPatient(id) fails with "does not exist" for every id
\* that was never the id of a successful CreatePatient.
C7_NeverCreated ==
  (/\ last.op = "FindPatient"
   /\ \A w \in wrote : ~(w[1] = "CreatePatient" /\ w[2] = last.id))
    => last.err = NotFound

-----------------------------------------------------------------------------
(* C8: UpdatePatient on an id that is missing *)

\* C8: UpdatePatient invoked with an id that has no entry in the ledger fails
\* with "does not exist" and leaves the whole ledger as it was.
C8_UpdateMissing ==
  [][(last'.op = "UpdatePatient" /\ last'.id \notin DOMAIN ledger)
       => /\ last'.err = NotFound
          /\ last'.puts = <<>>
          /\ ledger' = ledger]_vars

\* UpdatePatient has just failed for an id that is missing, in a ledger that
\* holds something else
C8_Witness ==
  /\ Failed("UpdatePatient", NotFound)
  /\ last.id \notin DOMAIN ledger
  /\ DOMAIN ledger # {}

-----------------------------------------------------------------------------
(* C9: what AllPatients returns *)

\* the entry at key k is a patient: it has the members of a Patient
IsPatientEntry(l, k) ==
  DOMAIN l[k] = {"name", "preExistingConditions", "diagnosisID", "statusID", "keyID"}

\* ret lists the keys ks once each, in ascending order, each with the entry
\* of l at the key read as a Patient
ListsKeys(ret, l, ks) ==
  /\ Len(ret) = Cardinality(ks)
  /\ \A i \in 1..Len(ret) :
       /\ ret[i].Key \in ks
       /\ ret[i].Record = UnmarshalPatient(l[ret[i].Key])
  /\ \A i \in 1..Len(ret), j \in 1..Len(ret) :
       i < j => LexLess(ret[i].Key, ret[j].Key)

\* C9 as stated: AllPatients(a, b) returns exactly the patients whose key k
\* has a <= k < b (an empty bound taken as no bound on its side), each once,
\* in ascending key order, and no element for a key that holds a proposal or
\* a result.
C9_AllRecordsOnly ==
  last.op = "AllPatients" =>
    /\ last.err = OK
    /\ ListsKeys(last.ret, ledger,
                 {k \in DOMAIN ledger :
                    /\ IsPatientEntry(ledger, k)
                    /\ last.id = <<>> \/ ~LexLess(k, last.id)
                    /\ last.args = <<>> \/ LexLess(k, last.args)})

\* C9, amended: AllPatients(a, b) returns one element for every key k of the
\* ledger with a <= k, when a is not empty, and k < b, when b is not empty,
\* whatever the entry at k is, each once, in ascending key order, the Record
\* of the element being the entry read as a Patient.
C9_AllEntries ==
  last.op = "AllPatients" =>
    /\ last.err = OK
    /\ ListsKeys(last.ret, ledger,
                 {k \in DOMAIN ledger :
                    /\ last.id = <<>> \/ ~LexLess(k, last.id)
                    /\ last.args = <<>> \/ LexLess(k, last.args)})

\* AllPatients("", "RESULT12") has just returned the proposal stored at
\* "P12", as a patient that has a keyID only, and not the entry at "RESULT12"
C9_Witness ==
  /\ Succeeded("AllPatients")
  /\ last.id = <<>>
  /\ last.args = IdRESULT12
  /\ IdRESULT12 \in DOMAIN ledger
  /\ <<"CreateProposal", IdP12, IdP12>> \in wrote
  /\ Len(last.ret) = 1
  /\ last.ret[1].Key = IdP12
  /\ last.ret[1].Record.Name = <<>>
  /\ last.ret[1].Record.KeyID = FindProposal(ledger, IdP12).ret.KeyID
  /\ last.ret[1].Record.KeyID # <<>>

-----------------------------------------------------------------------------
(* C10: a proposal, once stored *)

\* C10 as stated: once a successful CreateProposal has stored a proposal at
\* id, no later transaction changes the value stored at id.
C10_ProposalImmutable ==
  [][\A id \in Ids :
       <<"CreateProposal", id, id>> \in wrote =>
         /\ id \in DOMAIN ledger'
         /\ ledger'[id] = ledger[id]]_vars

-----------------------------------------------------------------------------
(* C11: what a successful UpdatePatient leaves in the ledger *)

\* the five values of the arguments a, as a Patient
PatientOf(a) ==
  [Name |-> a.name,
   PreExistingConditions |-> a.preExistingConditions,
   DiagnosisID |-> a.diagnosisID,
   StatusID |-> a.statusID,
   KeyID |-> a.keyID]

\* the five values of the arguments a read as text, as a Patient
PatientAsText(a) ==
  [Name |-> Coerced(a.name),
   PreExistingConditions |-> Coerced(a.preExistingConditions),
   DiagnosisID |-> Coerced(a.diagnosisID),
   StatusID |-> Coerced(a.statusID),
   KeyID |-> Coerced(a.keyID)]

\* C11 as stated: after a successful UpdatePatient(id, ...) on an entry that
\* is a patient, FindPatient(id) returns exactly the five values supplied,
\* the entry at id holds nothing else, and every other key of the ledger holds
\* what it held.
C11_UpdateReplacesExact ==
  [][(/\ last'.op = "UpdatePatient"
      /\ last'.err = OK
      /\ IsPatientEntry(ledger, last'.id)) =>
       /\ last'.puts = <<last'.id>>
       /\ SameButAt(ledger, ledger', last'.id)
       /\ IsPatientEntry(ledger', last'.id)
       /\ FindPatient(ledger', last'.id) =
            [err |-> OK, ret |-> PatientOf(last'.args)]]_vars

\* C11, amended: the same, the five values returned being the values supplied
\* read as text (U+FFFD in the place of every byte that is not valid UTF-8).
C11_UpdateReplaces ==
  [][(/\ last'.op = "UpdatePatient"
      /\ last'.err = OK
      /\ IsPatientEntry(ledger, last'.id)) =>
       /\ last'.puts = <<last'.id>>
       /\ SameButAt(ledger, ledger', last'.id)
       /\ IsPatientEntry(ledger', last'.id)
       /\ FindPatient(ledger', last'.id) =
            [err |-> OK, ret |-> PatientAsText(last'.args)]]_vars

\* UpdatePatient has just replaced a patient created with other values, in a
\* ledger that holds another entry
C11_Witness ==
  /\ Succeeded("UpdatePatient")
  /\ <<"CreatePatient", last.id, last.id>> \in wrote
  /\ <<"CreateProposal", last.id, last.id>> \notin wrote
  /\ \E a \in PatientInputs :
       /\ a.keyID # last.args.keyID
       /\ FindPatient(ledger, last.id).ret = PatientAsText(last.args)
       /\ FindPatient(ledger, last.id).ret # PatientAsText(a)
  /\ DOMAIN ledger # {last.id}

-----------------------------------------------------------------------------
(* C12: a call of the phe library that has no result to give *)

\* the error the handlers would return for a failure of the phe library
OracleError == "oracle failure"

\* a call of the phe library with a modulus that is not a number: a call the
\* library cannot give a mean or a re-keyed value for
Rejected(call) == call.modulo = <<>>

\* C12 as stated: when the call of the phe library is one the library cannot
\* succeed on, CreateProposal and CreateResult fail with an oracle error and
\* write nothing: no proposal at id, no result at the derived id.
C12_OracleFailure ==
  [][(/\ last'.op \in {"CreateProposal", "CreateResult"}
      /\ last'.oracle # <<>>
      /\ Rejected(last'.oracle[1])) =>
       /\ last'.err = OracleError
       /\ last'.puts = <<>>
       /\ ledger' = ledger]_vars

-----------------------------------------------------------------------------
(* C13: a query on an entry of another kind *)

\* the error the queries would return for bytes that do not parse
DecodeError == "decode failure"

\* the entry at key k is a proposal: it has the members of a Proposal
IsProposalEntry(l, k) ==
  DOMAIN l[k] = {"requesterID", "requestedID", "patientsIDs", "keyID", "value"}

\* the entry at key k is a result: it has the members of a Result
IsResultEntry(l, k) ==
  DOMAIN l[k] = {"proposalID", "keyID", "value"}

\* C13 as stated: FindPatient, FindProposal and FindResult fail with a decode
\* error when the entry at the id is not of the kind they return; they never
\* return an entity made from an entry of another kind.
C13_DecodeError ==
  /\ (/\ last.op = "FindPatient"
      /\ last.id \in DOMAIN ledger
      /\ ~IsPatientEntry(ledger, last.id)) => last.err = DecodeError
  /\ (/\ last.op = "FindProposal"
      /\ last.id \in DOMAIN ledger
      /\ ~IsProposalEntry(ledger, last.id)) => last.err = DecodeError
  /\ (/\ last.op = "FindResult"
      /\ last.id \in DOMAIN ledger
      /\ ~IsResultEntry(ledger, last.id)) => last.err = DecodeError

-----------------------------------------------------------------------------
(* C14: the queries write nothing *)

\* C14: a call of FindPatient, FindProposal, FindResult or AllPatients,
\* whether it succeeds or fails, leaves the ledger as it was.
C14_QueriesReadOnly ==
  [][last'.op \in {"FindPatient", "FindProposal", "FindResult", "AllPatients"}
       => ledger' = ledger]_vars

\* FindPatient has just answered for a key that holds a proposal, in a ledger
\* of three entries
C14_Witness ==
  /\ Succeeded("FindPatient")
  /\ IsProposalEntry(ledger, last.id)
  /\ last.ret = UnmarshalPatient(ledger[last.id])
  /\ Cardinality(DOMAIN ledger) = 3

-----------------------------------------------------------------------------
(* C15: CreateProposal stops at the first subject that is missing *)

\* the least number of a set of numbers
Least(S) == CHOOSE i \in S : \A j \in S : i <= j

\* C15: CreateProposal looks the subjects up one at a time in the order of
\* the list; when the lookup of the i-th subject is the first to fail, the
\* call has looked up the first i subjects and no other, has made no call of
\* the phe library and no write, and returns the error of that lookup; when
\* no lookup fails it has looked up the whole list, in order.
C15_FailFast ==
  [][last'.op = "CreateProposal" =>
       LET pids == Split(last'.args.patientsIDs)
           missing == {i \in 1..Len(pids) : pids[i] \notin DOMAIN ledger}
       IN  IF missing = {}
           THEN /\ last'.err = OK
                /\ last'.reads = pids
           ELSE /\ last'.err = FindPatient(ledger, pids[Least(missing)]).err
                /\ last'.err # OK
                /\ last'.reads = SubSeq(pids, 1, Least(missing))
                /\ last'.oracle = <<>>
                /\ last'.puts = <<>>
                /\ ledger' = ledger]_vars

\* CreateProposal has just failed on the first of two subjects, and has not
\* looked up the second one, which is there
C15_Witness ==
  /\ Failed("CreateProposal", NotFound)
  /\ last.args.patientsIDs = Join(<<IdA, IdP12>>)
  /\ IdA \notin DOMAIN ledger
  /\ IdP12 \in DOMAIN ledger
  /\ last.reads = <<IdA>>

-----------------------------------------------------------------------------
(* C17: patients, and the transactions of proposals and results *)

\* C17 as stated: CreateProposal and CreateResult, whether they succeed or
\* fail, leave every patient stored in the ledger as it was.
C17_PatientsUntouched ==
  [][last'.op \in {"CreateProposal", "CreateResult"} =>
       \A r \in DOMAIN ledger :
         IsPatientEntry(ledger, r) =>
           /\ r \in DOMAIN ledger'
           /\ ledger'[r] = ledger[r]]_vars

-----------------------------------------------------------------------------
(* C18: what CreateProposal and CreateResult accept to read *)

\* C18 as stated: CreateProposal with a subject whose entry is not a patient,
\* and CreateResult with a proposalID whose entry is not a proposal, fail and
\* write nothing.
C18_ReadsOwnKind ==
  [][(\/ /\ last'.op = "CreateProposal"
         /\ \E i \in 1..Len(Split(last'.args.patientsIDs)) :
              LET pid == Split(last'.args.patientsIDs)[i]
              IN  pid \in DOMAIN ledger /\ ~IsPatientEntry(ledger, pid)
      \/ /\ last'.op = "CreateResult"
         /\ last'.id \in DOMAIN ledger
         /\ ~IsProposalEntry(ledger, last'.id)) =>
       /\ last'.err # OK
       /\ last'.puts = <<>>
       /\ ledger' = ledger]_vars

-----------------------------------------------------------------------------
(* C20: the ids a proposal and a result refer to *)

\* every subject of every proposal stored in l, and the proposalID of every
\* result stored in l, is a key of l
RefersToEntries(l) ==
  \A k \in DOMAIN l :
    /\ IsProposalEntry(l, k) =>
         LET pids == Split(UnmarshalProposal(l[k]).PatientsIDs)
         IN  \A i \in 1..Len(pids) : pids[i] \in DOMAIN l
    /\ IsResultEntry(l, k) => UnmarshalResult(l[k]).ProposalID \in DOMAIN l

\* C20: no transaction removes a key of the ledger, and in every state every
\* subject of a stored proposal and the proposalID of a stored result has an
\* entry.
C20_ReferentialIntegrity ==
  [][/\ DOMAIN ledger \subseteq DOMAIN ledger'
     /\ RefersToEntries(ledger')]_vars

\* the result of the proposal stored at "P12", whose subject is "a", has just
\* been written at "RESULT12"
C20_Witness ==
  /\ Succeeded("CreateResult")
  /\ last.id = IdP12
  /\ IsProposalEntry(ledger, IdP12)
  /\ UnmarshalProposal(ledger[IdP12]).PatientsIDs = IdA
  /\ IsPatientEntry(ledger, IdA)
  /\ IsResultEntry(ledger, IdRESULT12)
  /\ UnmarshalResult(ledger[IdRESULT12]).ProposalID = IdP12

-----------------------------------------------------------------------------
(* C16: two UpdatePatient calls on one id, their steps interleaved *)

\* both clients have returned from an UpdatePatient on the same id, which
\* had an entry when each of the calls began
BothUpdated(p, q) ==
  /\ p # q
  /\ running[p].op = "UpdatePatient" /\ running[p].pc = "done"
  /\ running[q].op = "UpdatePatient" /\ running[q].pc = "done"
  /\ running[p].id = running[q].id
  /\ running[p].existed /\ running[q].existed

\* C16 as stated: when two UpdatePatient calls on one existing id have run,
\* their reads and writes interleaved in any way, both have succeeded and the
\* patient stored at the id has exactly the five values of the call that
\* wrote last, and nothing else.
C16_LastWriterExact ==
  \A p \in Procs, q \in Procs :
    BothUpdated(p, q) =>
      /\ running[p].err = OK
      /\ running[q].err = OK
      /\ (last.op = "UpdatePatient" /\ last.id = running[p].id) =>
           /\ IsPatientEntry(ledger, last.id)
           /\ FindPatient(ledger, last.id) =
                [err |-> OK, ret |-> PatientOf(last.args)]

\* C16, amended: the same, the five values stored being those of the call
\* that wrote last read as text (U+FFFD in the place of every byte that is
\* not valid UTF-8).
C16_LastWriter ==
  \A p \in Procs, q \in Procs :
    BothUpdated(p, q) =>
      /\ running[p].err = OK
      /\ running[q].err = OK
      /\ (last.op = "UpdatePatient" /\ last.id = running[p].id) =>
           /\ IsPatientEntry(ledger, last.id)
           /\ FindPatient(ledger, last.id) =
                [err |-> OK, ret |-> PatientAsText(last.args)]

\* both clients read the patient as it was created, then both wrote: the
\* values stored are those of the second write, which differ in every field
\* from those of the first write and from those the patient was created with
C16_Witness ==
  /\ BothUpdated(1, 2)
  /\ last.op = "UpdatePatient"
  /\ last.args = running[1].args
  /\ running[1].patient = running[2].patient
  /\ \E a \in CreateInputs : running[1].patient = PatientAsText(a)
  /\ running[1].args.keyID # running[2].args.keyID
  /\ FindPatient(ledger, IdA).ret = PatientAsText(running[1].args)
  /\ FindPatient(ledger, IdA).ret.Name # running[2].patient.Name

-----------------------------------------------------------------------------
(* C19: the entry at the id of a proposal while CreateProposal runs *)

\* the proposal the CreateProposal of frame f stores, as FindProposal reads
\* it back
StoredBy(f) ==
  [RequesterID |-> Coerced(f.args.requesterID),
   RequestedID |-> Coerced(f.args.requestedID),
   PatientsIDs |-> Coerced(f.args.patientsIDs),
   KeyID |-> Coerced(f.args.keyID),
   Value |-> MeanFromString(f.args.modulo, f.ms)]

\* C19: while a CreateProposal(id, ...) is in progress, between any two of
\* its lookups and around the call of the phe library, and when it has
\* failed, the entry at id is what it was when the call began; when it has
\* succeeded the entry at id is the whole proposal, its value set; and a
\* FindProposal that comes in between never returns a proposal whose value is
\* missing.
C19_NoPendingProposal ==
  /\ \A p \in Procs :
       LET f == running[p]
       IN  f.op = "CreateProposal" =>
             IF f.pc = "done" /\ f.err = OK
             THEN /\ IsProposalEntry(ledger, f.id)
                  /\ FindProposal(ledger, f.id) = [err |-> OK, ret |-> StoredBy(f)]
                  /\ StoredBy(f).Value # <<>>
             ELSE Entry(ledger, f.id) = f.before
  /\ (/\ last.op = "FindProposal"
      /\ last.err = OK
      /\ IsProposalEntry(ledger, last.id)) => last.ret.Value # <<>>

\* FindProposal("P12") has just found nothing while the CreateProposal of
\* "P12" has its subjects and their mean and has yet to write
C19_Witness ==
  /\ running[1].op = "CreateProposal"
  /\ running[1].pc = "PutState"
  /\ running[1].m # <<>>
  /\ Len(running[1].ms) = 2
  /\ Failed("FindProposal", NotFound)
  /\ last.id = running[1].id
  /\ running[1].before = {}

====
